---- MODULE Spec2Model ----
(***************************************************************************)
(* skia-canvas-ui (src/core.js): the node tree, the relayout list of a     *)
(* context, the layout function and the per-frame update callback.         *)
(*                                                                         *)
(* Objects are numbered: the nodes the program constructs are 1..NumNodes, *)
(* the root of context k is NumNodes + k.  A JavaScript null is Null for   *)
(* a node or a context and NullValue for a style field.  Numbers are       *)
(* integers (scales are whole).  Objects that are compared with === are    *)
(* compared by value: equal values stand for the same object.  An          *)
(* exception raised inside a setter leaves the writes made before it in    *)
(* place and sets threw; an exception raised inside update() ends the      *)
(* frame loop, because update() re-arms itself only in its last line.      *)
(***************************************************************************)
EXTENDS Integers, Sequences, FiniteSets, TLC

\* ------------------------------------------------------------------ bounds
NumNodes == 3
NumContexts == 2
MaxSteps == 3
MaxTreeSteps == 5
MaxFrameSteps == 6
MaxAssignSteps == 4
MaxClipSteps == 4
MaxPaintSteps == 5
MaxCullSteps == 6
MaxPaddingSteps == 7
MaxRootSteps == 6
MaxRegistrySteps == 6
MaxCleanupSteps == 5
MaxMergeSteps == 2
MaxStyles == 2
MaxVector2Steps == 1
MaxReattachSteps == 7
MaxLayoutSteps == 8
MaxDrawSteps == 7
MaxMoveSteps == 7
MaxAttachSteps == 4
MaxCycleSteps == 5
MaxIdleSteps == 5

Null == 0
Nodes == 1..NumNodes
Ctxs == 1..NumContexts
RootOf(k) == NumNodes + k
Roots == {RootOf(k) : k \in Ctxs}
All == Nodes \cup Roots
IsRoot(n) == n \in Roots
\* deeper than this, a recursion over children is on a cycle: the call stack overflows
MaxDepth == NumNodes + NumContexts + 1

\* the nodes built with new TextLabel(); the others are built with new Frame()
TextLabels == {NumNodes}
IsTextLabel(n) == n \in TextLabels

\* ------------------------------------------------------------------ values
\* SDim2 as <<scaleX, offsetX, scaleY, offsetY>>, SDim as <<scale, offset>>, Vector2 as <<x, y>>
SDim2Default == <<0, 0, 0, 0>>
Vector2Default == <<0, 0>>
NullValue == <<>>
\* the number NaN as the value of a style property
NaNValue == <<0, 0, 0>>

PositionValues == {<<0, 0, 0, 0>>, <<0, -50, 0, -50>>}
SizeValues == {<<0, 10, 0, 10>>, <<1, 0, 1, 0>>}
AnchorValues == {<<0, 0, 0, 0>>}
TextValues == {"Hello"}
PaddingValues == {<<0, 10>>, NullValue}
ContextSizes == {<<800, 600>>, <<20, 20>>}
InitialContextSize == <<800, 600>>

StyleFields == {"background", "color", "paddingLeft", "paddingTop", "paddingRight",
                "paddingBottom", "textSize", "textAlign", "verticalTextAlign"}

NewUIStyle == [f \in StyleFields |-> NullValue]

UIStyleDefault ==
    [f \in StyleFields |->
        CASE f = "background" -> <<255>>
          [] f = "color" -> <<0>>
          [] f \in {"paddingLeft", "paddingTop", "paddingRight", "paddingBottom"} -> <<0, 0>>
          [] f = "textSize" -> <<14>>
          [] f = "textAlign" -> <<1>>
          [] f = "verticalTextAlign" -> <<1>>]

\* a merge in which every property of a later style overwrites, null included
mergeOverwriting(stylesSeq) ==
    IF Len(stylesSeq) = 0 THEN NewUIStyle ELSE stylesSeq[Len(stylesSeq)]

RECURSIVE MergeFrom(_, _, _)
MergeFrom(newStyle, stylesSeq, i) ==
    IF i > Len(stylesSeq) THEN newStyle
    ELSE MergeFrom([f \in StyleFields |->
                       IF stylesSeq[i][f] # NullValue THEN stylesSeq[i][f] ELSE newStyle[f]],
                   stylesSeq, i + 1)

merge(stylesSeq) == MergeFrom(NewUIStyle, stylesSeq, 1)

\* the keys of a node's _styleTriggersLayout
StyleTriggers(n) ==
    {"paddingLeft", "paddingTop", "paddingRight", "paddingBottom"}
        \cup (IF IsTextLabel(n) THEN {"textSize", "textAlign", "verticalTextAlign"} ELSE {})

\* ------------------------------------------------------------------ state
VARIABLES
    parent,              \* Node.#parent
    context,             \* Node._context
    children,            \* Node.children
    visible, position, size, anchorPoint, text,   \* the properties with a scheduling setter
    zIndex, clipsDescendants,
    style, styles,       \* UIObject.style, UIObject.styles
    styleTriggersLayout, \* UIObject._styleTriggersLayout: the values seen by the last sweep
    abs,                 \* absolutePosition, absoluteSize, absoluteAnchorPoint, absolutePadding*, visibleOnScreen
    laidOutIn,           \* history: the contexts whose drain has laid the node out
    ctxSize,             \* Context.size
    relayout,            \* Context.relayout
    contexts,            \* the module's Map of running contexts, in insertion order
    surface,             \* Context.surface is not null
    root,                \* Context.root
    armed,               \* requestAnimationFrame(update) is pending
    pc, cur,             \* where update() is, and the index in contexts of the context it is at
    swept,               \* the nodes the current frame's style sweep has visited, in call order
    laidOut,             \* the layout calls of the current frame's drain, in call order
    drained,             \* the relayout entries the drain called layout(true) on, in call order
    painted,             \* the paint calls of the current frame's draw, in call order
    overflow,            \* the last phase of update() exhausted the call stack
    threw,               \* the last operation raised an exception
    lastOp,              \* the last operation completed: an assignment, a call, or a context's frame
    budget               \* operations the run may still perform

treeVars == <<parent, context, children>>
propVars == <<visible, position, size, anchorPoint, text, zIndex, clipsDescendants>>
styleVars == <<style, styles>>
layoutVars == <<styleTriggersLayout, abs, laidOutIn>>
ctxVars == <<ctxSize, relayout, contexts, surface, root>>
frameVars == <<armed, pc, cur, swept, laidOut, drained, painted, overflow>>
vars == <<treeVars, propVars, styleVars, layoutVars, ctxVars, frameVars, threw, lastOp, budget>>

\* old and new: the parent before and after for SetParent; 1 for true and 0 for false for
\* SetVisible; for SetStyle whether the computed field had and has the default value; for
\* SetContextSize whether the context is running
Op(name, n, old, new) == [op |-> name, node |-> n, old |-> old, new |-> new]
B(b) == IF b THEN 1 ELSE 0

NewAbs ==
    [absolutePosition |-> Vector2Default, absoluteSize |-> Vector2Default,
     absoluteAnchorPoint |-> Vector2Default,
     absolutePaddingLeft |-> 0, absolutePaddingTop |-> 0,
     absolutePaddingRight |-> 0, absolutePaddingBottom |-> 0,
     visibleOnScreen |-> TRUE]

InitWith(b) ==
    /\ parent = [n \in All |-> Null]
    /\ context = [n \in All |-> IF IsRoot(n) THEN n - NumNodes ELSE Null]
    /\ children = [n \in All |-> <<>>]
    /\ visible = [n \in All |-> TRUE]
    /\ position = [n \in All |-> SDim2Default]
    /\ size = [n \in All |-> SDim2Default]
    /\ anchorPoint = [n \in All |-> SDim2Default]
    /\ text = [n \in All |-> "TextLabel"]
    /\ zIndex = [n \in All |-> 1]
    /\ clipsDescendants = [n \in All |-> FALSE]
    /\ style = [n \in All |-> NewUIStyle]
    /\ styles = [n \in All |-> <<>>]
    /\ styleTriggersLayout = [n \in All |-> [f \in StyleTriggers(n) |-> NullValue]]
    /\ abs = [n \in All |-> NewAbs]
    /\ laidOutIn = [n \in All |-> {}]
    /\ ctxSize = [k \in Ctxs |-> InitialContextSize]
    /\ relayout = [k \in Ctxs |-> <<>>]
    /\ contexts = <<>>
    /\ surface = [k \in Ctxs |-> TRUE]
    /\ root = [k \in Ctxs |-> RootOf(k)]
    /\ armed = TRUE
    /\ pc = "idle"
    /\ cur = 0
    /\ swept = <<>>
    /\ laidOut = <<>>
    /\ drained = <<>>
    /\ painted = <<>>
    /\ overflow = FALSE
    /\ threw = FALSE
    /\ lastOp = Op("new", Null, 0, 0)
    /\ budget = b

Init == InitWith(MaxSteps)

computedStyle(n) == merge(<<UIStyleDefault>> \o styles[n] \o <<style[n]>>)

\* ------------------------------------------------------------------ arrays
\* Array.prototype.indexOf: the 0-based index of the first occurrence, or -1
indexOf(seq, x) ==
    IF \E i \in 1..Len(seq) : seq[i] = x
    THEN (CHOOSE i \in 1..Len(seq) : seq[i] = x /\ \A j \in 1..(i - 1) : seq[j] # x) - 1
    ELSE -1

includes(seq, x) == \E i \in 1..Len(seq) : seq[i] = x

\* Array.prototype.splice(start, 1): a negative start counts from the end
splice1(seq, start) ==
    LET from == IF start < 0 THEN (IF Len(seq) + start < 0 THEN 0 ELSE Len(seq) + start)
                ELSE (IF start > Len(seq) THEN Len(seq) ELSE start)
    IN  SubSeq(seq, 1, from) \o SubSeq(seq, from + 2, Len(seq))

Count(seq, x) == Cardinality({i \in 1..Len(seq) : seq[i] = x})

\* ------------------------------------------------------------------ scheduling
\* _scheduleLayout without the includes() test
scheduleLayoutNoIncludes(rl, k, object, ctxF, parF, visF) ==
    IF ctxF[object] = k /\ parF[object] # Null /\ visF[object]
    THEN [rl EXCEPT ![k] = Append(@, object)]
    ELSE rl

\* Context._scheduleLayout(object) of context k, reading the fields as they are at the call
scheduleLayout(rl, k, object, ctxF, parF, visF) ==
    IF ctxF[object] = k /\ parF[object] # Null /\ visF[object] /\ ~includes(rl[k], object)
    THEN [rl EXCEPT ![k] = Append(@, object)]
    ELSE rl

\* a setter that writes the value and forgets to schedule
triggersLayoutForgotten(rl, n, visF) == rl

\* the setter _propertyTriggersLayout installs: after the write, schedule in the node's context
triggersLayout(rl, n, visF) ==
    IF context[n] # Null THEN scheduleLayout(rl, context[n], n, context, parent, visF) ELSE rl

\* a setter that lays the node out at once: it is culled as soon as it is assigned
assignmentCulls(g, n) == [g EXCEPT ![n].visibleOnScreen = FALSE]

\* what an assignment (a property setter, the parent setter, the context's size setter)
\* does to the computed layout fields: it calls no layout, they wait for the next frame
assignmentLeaves(g, n) == g

Idle == pc = "idle" /\ budget > 0
Step == budget' = budget - 1

\* ------------------------------------------------------------------ Node.parent
\* a parent setter that leaves the old parent unscheduled
scheduleOldParentForgotten(rl, p) == rl

\* this.#parent._context._scheduleLayout(this.#parent)
scheduleOldParent(rl, p) == scheduleLayout(rl, context[p], p, context, parent, visible)

\* child.parent = newParent
SetParent(child, newParent) ==
    /\ Idle /\ Step
    /\ lastOp' = Op("SetParent", child, parent[child], newParent)
    /\ LET p == parent[child]
           children1 == IF p # Null
                        THEN [children EXCEPT ![p] = splice1(@, indexOf(@, child))]
                        ELSE children
           throws1 == p # Null /\ context[p] = Null
           relayout1 == IF p # Null /\ ~throws1
                        THEN scheduleOldParent(relayout, p)
                        ELSE relayout
           context2 == [context EXCEPT ![child] = context[newParent]]
           children2 == [children1 EXCEPT ![newParent] = Append(@, child)]
       IN  IF newParent = p
           THEN /\ UNCHANGED <<parent, context, children, relayout>>
                /\ threw' = FALSE
           ELSE IF throws1
           THEN /\ children' = children1
                /\ UNCHANGED <<parent, context, relayout>>
                /\ threw' = TRUE
           ELSE IF newParent = Null
           THEN /\ children' = children1
                /\ relayout' = relayout1
                /\ context' = [context EXCEPT ![child] = Null]
                /\ parent' = [parent EXCEPT ![child] = Null]
                /\ threw' = FALSE
           ELSE IF context2[child] = Null
           THEN /\ children' = children2
                /\ context' = context2
                /\ relayout' = relayout1
                /\ UNCHANGED parent
                /\ threw' = TRUE
           ELSE /\ children' = children2
                /\ context' = context2
                /\ relayout' = scheduleLayout(relayout1, context2[child], child,
                                              context2, parent, visible)
                /\ parent' = [parent EXCEPT ![child] = newParent]
                /\ threw' = FALSE
    /\ abs' = assignmentLeaves(abs, child)
    /\ UNCHANGED <<propVars, styleVars, styleTriggersLayout, laidOutIn, ctxSize, contexts, surface, root, frameVars>>

\* ------------------------------------------------------------------ property setters
SetPosition(n, v) ==
    /\ Idle /\ Step
    /\ lastOp' = Op("SetPosition", n, 0, 0)
    /\ position' = [position EXCEPT ![n] = v]
    /\ relayout' = triggersLayout(relayout, n, visible)
    /\ abs' = assignmentLeaves(abs, n)
    /\ threw' = FALSE
    /\ UNCHANGED <<treeVars, visible, size, anchorPoint, text, zIndex, clipsDescendants,
                   styleVars, styleTriggersLayout, laidOutIn, ctxSize, contexts, surface, root, frameVars>>

SetSize(n, v) ==
    /\ Idle /\ Step
    /\ lastOp' = Op("SetSize", n, 0, 0)
    /\ size' = [size EXCEPT ![n] = v]
    /\ relayout' = triggersLayout(relayout, n, visible)
    /\ abs' = assignmentLeaves(abs, n)
    /\ threw' = FALSE
    /\ UNCHANGED <<treeVars, visible, position, anchorPoint, text, zIndex, clipsDescendants,
                   styleVars, styleTriggersLayout, laidOutIn, ctxSize, contexts, surface, root, frameVars>>

SetAnchorPoint(n, v) ==
    /\ Idle /\ Step
    /\ lastOp' = Op("SetAnchorPoint", n, 0, 0)
    /\ anchorPoint' = [anchorPoint EXCEPT ![n] = v]
    /\ relayout' = triggersLayout(relayout, n, visible)
    /\ abs' = assignmentLeaves(abs, n)
    /\ threw' = FALSE
    /\ UNCHANGED <<treeVars, visible, position, size, text, zIndex, clipsDescendants,
                   styleVars, styleTriggersLayout, laidOutIn, ctxSize, contexts, surface, root, frameVars>>

SetVisible(n, v) ==
    /\ Idle /\ Step
    /\ lastOp' = Op("SetVisible", n, B(visible[n]), B(v))
    /\ visible' = [visible EXCEPT ![n] = v]
    /\ relayout' = triggersLayout(relayout, n, visible')
    /\ abs' = assignmentLeaves(abs, n)
    /\ threw' = FALSE
    /\ UNCHANGED <<treeVars, position, size, anchorPoint, text, zIndex, clipsDescendants,
                   styleVars, styleTriggersLayout, laidOutIn, ctxSize, contexts, surface, root, frameVars>>

\* only a TextLabel installs the setter for text
SetText(n, v) ==
    /\ Idle /\ Step
    /\ lastOp' = Op("SetText", n, 0, 0)
    /\ IsTextLabel(n)
    /\ text' = [text EXCEPT ![n] = v]
    /\ relayout' = triggersLayout(relayout, n, visible)
    /\ abs' = assignmentLeaves(abs, n)
    /\ threw' = FALSE
    /\ UNCHANGED <<treeVars, visible, position, size, anchorPoint, zIndex, clipsDescendants,
                   styleVars, styleTriggersLayout, laidOutIn, ctxSize, contexts, surface, root, frameVars>>

\* plain fields: no setter
SetClipsDescendants(n, v) ==
    /\ Idle /\ Step
    /\ lastOp' = Op("SetClipsDescendants", n, B(clipsDescendants[n]), B(v))
    /\ clipsDescendants' = [clipsDescendants EXCEPT ![n] = v]
    /\ threw' = FALSE
    /\ UNCHANGED <<treeVars, visible, position, size, anchorPoint, text, zIndex,
                   styleVars, layoutVars, ctxVars, frameVars>>

\* node.style[field] = value
SetStyle(n, field, v) ==
    /\ Idle /\ Step
    /\ style' = [style EXCEPT ![n][field] = v]
    /\ lastOp' = Op("SetStyle", n, B(computedStyle(n)[field] = UIStyleDefault[field]),
                    B(merge(<<UIStyleDefault>> \o styles[n] \o <<[style[n] EXCEPT ![field] = v]>>)[field]
                        = UIStyleDefault[field]))
    /\ threw' = FALSE
    /\ UNCHANGED <<treeVars, propVars, styles, layoutVars, ctxVars, frameVars>>

\* node.styles.push(s)
StylesPush(n, s) ==
    /\ Idle /\ Step
    /\ Len(styles[n]) < MaxStyles
    /\ styles' = [styles EXCEPT ![n] = Append(@, s)]
    /\ lastOp' = Op("StylesPush", n, 0, 0)
    /\ threw' = FALSE
    /\ UNCHANGED <<treeVars, propVars, style, layoutVars, ctxVars, frameVars>>

\* node.style = s
SetStyleObject(n, s) ==
    /\ Idle /\ Step
    /\ style' = [style EXCEPT ![n] = s]
    /\ lastOp' = Op("SetStyleObject", n, 0, 0)
    /\ threw' = FALSE
    /\ UNCHANGED <<treeVars, propVars, styles, layoutVars, ctxVars, frameVars>>

\* ------------------------------------------------------------------ Context
running(k) == includes(contexts, k)

\* context.size = newValue; this.surface.delete() throws on the null surface of a context
\* that was cleaned up, after the size was stored
SetContextSize(k, v) ==
    /\ Idle /\ Step
    /\ lastOp' = Op("SetContextSize", RootOf(k), B(running(k)), B(running(k)))
    /\ ctxSize' = [ctxSize EXCEPT ![k] = v]
    /\ relayout' = IF surface[k] THEN [relayout EXCEPT ![k] = Append(@, root[k])] ELSE relayout
    /\ abs' = assignmentLeaves(abs, RootOf(k))
    /\ threw' = ~surface[k]
    /\ UNCHANGED <<treeVars, propVars, styleVars, styleTriggersLayout, laidOutIn, contexts, surface, root, frameVars>>

\* a root whose fields take an assignment like those of any other node
writeAccepted(F, r, v) == [F EXCEPT ![r] = v]

\* an assignment to a field of the root that the constructor defined with writable: false:
\* the field keeps its value
writeProtected(F, r, v) == F

\* the assignments to the root's write-protected fields, as <<field, value>>
RootWrites ==
    {<<"name", "Main">>, <<"parent", 1>>, <<"_context", Null>>, <<"visible", FALSE>>,
     <<"size", <<0, 10, 0, 10>>>>, <<"position", <<0, -50, 0, -50>>>>,
     <<"anchorPoint", <<0, 10, 0, 10>>>>, <<"zIndex", 2>>, <<"clipsDescendants", TRUE>>}

\* context.root[w[1]] = w[2]: a TypeError in strict code, ignored in sloppy code; no setter
\* runs
SetRootProperty(k, w) ==
    /\ Idle /\ Step
    /\ lastOp' = Op("SetRootProperty", RootOf(k), 0, 0)
    /\ parent' = IF w[1] = "parent" THEN writeProtected(parent, RootOf(k), w[2]) ELSE parent
    /\ context' = IF w[1] = "_context" THEN writeProtected(context, RootOf(k), w[2])
                  ELSE context
    /\ visible' = IF w[1] = "visible" THEN writeProtected(visible, RootOf(k), w[2])
                  ELSE visible
    /\ size' = IF w[1] = "size" THEN writeProtected(size, RootOf(k), w[2]) ELSE size
    /\ position' = IF w[1] = "position" THEN writeProtected(position, RootOf(k), w[2])
                   ELSE position
    /\ anchorPoint' = IF w[1] = "anchorPoint"
                      THEN writeProtected(anchorPoint, RootOf(k), w[2]) ELSE anchorPoint
    /\ zIndex' = IF w[1] = "zIndex" THEN writeProtected(zIndex, RootOf(k), w[2]) ELSE zIndex
    /\ clipsDescendants' = IF w[1] = "clipsDescendants"
                           THEN writeProtected(clipsDescendants, RootOf(k), w[2])
                           ELSE clipsDescendants
    /\ threw' \in BOOLEAN
    /\ UNCHANGED <<children, text, styleVars, layoutVars, ctxVars, frameVars>>

\* a registry that takes an id once more each time it is set
setAppending(map, id) == Append(map, id)

\* contexts.set(id, context): a key that is present keeps its place in the iteration order
set(map, id) == IF includes(map, id) THEN map ELSE Append(map, id)

\* contexts.delete(id): the registry without the id, and whether the id was in it
delete(map, id) ==
    [map |-> SelectSeq(map, LAMBDA other : other # id), result |-> includes(map, id)]

\* context.start(); old is whether the context was running
start(k) ==
    /\ Idle /\ Step
    /\ lastOp' = Op("start", RootOf(k), B(running(k)), 1)
    /\ contexts' = set(contexts, k)
    /\ threw' = FALSE
    /\ UNCHANGED <<treeVars, propVars, styleVars, layoutVars, ctxSize, relayout, surface, root, frameVars>>

\* context.stop(); old is whether the context was running, new is the value returned
stop(k) ==
    /\ Idle /\ Step
    /\ lastOp' = Op("stop", RootOf(k), B(running(k)), B(delete(contexts, k).result))
    /\ contexts' = delete(contexts, k).map
    /\ threw' = FALSE
    /\ UNCHANGED <<treeVars, propVars, styleVars, layoutVars, ctxSize, relayout, surface, root, frameVars>>

\* context.cleanup(); on a context that was cleaned up before, this.surface.delete() throws
cleanup(k) ==
    /\ Idle /\ Step
    /\ lastOp' = Op("cleanup", RootOf(k), B(running(k)), 0)
    /\ contexts' = delete(contexts, k).map
    /\ IF surface[k]
       THEN /\ surface' = [surface EXCEPT ![k] = FALSE]
            /\ root' = [root EXCEPT ![k] = Null]
            /\ relayout' = [relayout EXCEPT ![k] = <<>>]
       ELSE UNCHANGED <<surface, root, relayout>>
    /\ threw' = ~surface[k]
    /\ UNCHANGED <<treeVars, propVars, styleVars, layoutVars, ctxSize, frameVars>>

\* ------------------------------------------------------------------ layout
\* a layout that takes the size from the parent's size alone, without its padding
layoutOwnInFullBox(g, n, updatePosition) ==
    LET p == parent[n]
        absoluteSizeX == size[n][1] * g[p].absoluteSize[1] + size[n][2]
        absoluteSizeY == size[n][3] * g[p].absoluteSize[2] + size[n][4]
    IN  [g EXCEPT ![n].absoluteSize = <<absoluteSizeX, absoluteSizeY>>,
                  ![n].absolutePosition = <<g[p].absolutePosition[1] + g[p].absolutePaddingLeft,
                                            g[p].absolutePosition[2] + g[p].absolutePaddingTop>>]

\* what layout() writes to the node itself (all but the recursion into the children)
layoutOwn(g, n, updatePosition) ==
    LET p == parent[n]
        parentAbsoluteSize == g[p].absoluteSize
        cs == computedStyle(n)
        absoluteSizeX == size[n][1] * parentAbsoluteSize[1] + size[n][2]
                           - g[p].absolutePaddingLeft - g[p].absolutePaddingRight
        absoluteSizeY == size[n][3] * parentAbsoluteSize[2] + size[n][4]
                           - g[p].absolutePaddingTop - g[p].absolutePaddingBottom
        absoluteAnchorPointX == anchorPoint[n][1] * absoluteSizeX + anchorPoint[n][2]
        absoluteAnchorPointY == anchorPoint[n][3] * absoluteSizeY + anchorPoint[n][4]
        g1 == [g EXCEPT
                 ![n].absolutePaddingLeft = cs.paddingLeft[1] * absoluteSizeX + cs.paddingLeft[2],
                 ![n].absolutePaddingTop = cs.paddingTop[1] * absoluteSizeY + cs.paddingTop[2],
                 ![n].absolutePaddingRight = cs.paddingRight[1] * absoluteSizeX + cs.paddingRight[2],
                 ![n].absolutePaddingBottom = cs.paddingBottom[1] * absoluteSizeY + cs.paddingBottom[2],
                 ![n].absoluteSize = <<absoluteSizeX, absoluteSizeY>>]
    IN  IF updatePosition
        THEN [g1 EXCEPT
                 ![n].absoluteAnchorPoint = <<absoluteAnchorPointX, absoluteAnchorPointY>>,
                 ![n].absolutePosition =
                     <<position[n][1] * g1[p].absoluteSize[1] + position[n][2]
                          - absoluteAnchorPointX + g1[p].absolutePosition[1]
                          + g1[p].absolutePaddingLeft,
                       position[n][3] * g1[p].absoluteSize[2] + position[n][4]
                          - absoluteAnchorPointY + g1[p].absolutePosition[2]
                          + g1[p].absolutePaddingTop>>]
        ELSE g1

\* the comparison that sets visibleOnScreen
onScreen(a, contextSize) ==
    /\ a.absolutePosition[1] < contextSize[1]
    /\ a.absolutePosition[2] < contextSize[2]
    /\ a.absolutePosition[1] + a.absoluteSize[1] > 0
    /\ a.absolutePosition[2] + a.absoluteSize[2] > 0

\* node.layout(updatePosition) on the fields res.g; res.log collects the calls, res.ok is
\* FALSE once a call has raised (a null parent or context, or the stack overflowing on a cycle)
\* a layout that recurses into every child, visible or not
layoutsEveryChild(child) == TRUE

\* child.visible && child.layout: every UIObject has a layout
layoutsChild(child) == visible[child]

RECURSIVE layout(_, _, _, _), layoutChildren(_, _, _, _)
layoutChildren(res, n, i, fuel) ==
    IF ~res.ok \/ i > Len(children[n]) THEN res
    ELSE layoutChildren(IF layoutsChild(children[n][i])
                        THEN layout(res, children[n][i], TRUE, fuel - 1)
                        ELSE res,
                        n, i + 1, fuel)

layout(res, n, updatePosition, fuel) ==
    IF fuel = 0 THEN [res EXCEPT !.ok = FALSE, !.overflow = TRUE]
    ELSE LET res1 == [res EXCEPT !.log = Append(@, n)]
         IN  IF IsRoot(n)
             THEN layoutChildren([res1 EXCEPT !.g[n].absoluteSize = ctxSize[context[n]]],
                                 n, 1, fuel)
             ELSE IF parent[n] = Null THEN [res1 EXCEPT !.ok = FALSE]
             ELSE LET g1 == layoutOwn(res1.g, n, updatePosition)
                  IN  IF context[n] = Null
                      THEN [res1 EXCEPT !.g = g1, !.ok = FALSE]
                      ELSE layoutChildren(
                               [res1 EXCEPT !.g = [g1 EXCEPT ![n].visibleOnScreen =
                                                      onScreen(g1[n], ctxSize[context[n]])]],
                               n, 1, fuel)

\* for (const object of context.relayout) object.layout(true)
RECURSIVE drain(_, _, _)
drain(res, list, i) ==
    IF ~res.ok \/ i > Len(list) THEN res
    ELSE drain(layout([res EXCEPT !.top = Append(@, list[i])], list[i], TRUE, MaxDepth),
               list, i + 1)

\* ------------------------------------------------------------------ style sweep
\* computedStyle[property] !== value: NaN is unequal to every value, itself included
strictlyUnequal(a, b) == a # b \/ a = NaNValue

\* for (const property in UIObject._styleTriggersLayout)
\*     UIObject._styleTriggersLayout[property] = computedStyle[property]
storesSeen(cache, u, cs) == [cache EXCEPT ![u] = [f \in StyleTriggers(u) |-> cs[f]]]

RECURSIVE iterativeCheckForStyleChanges(_, _, _), checkChildren(_, _, _, _)
checkChildren(st, u, i, fuel) ==
    IF ~st.ok \/ i > Len(children[u]) THEN st
    ELSE checkChildren(iterativeCheckForStyleChanges(st, children[u][i], fuel - 1),
                       u, i + 1, fuel)

iterativeCheckForStyleChanges(st0, u, fuel) ==
    LET st == [st0 EXCEPT !.log = Append(@, u)]
    IN  IF fuel = 0 THEN [st0 EXCEPT !.ok = FALSE, !.overflow = TRUE]
        ELSE IF ~visible[u] THEN st
        ELSE IF abs[u].visibleOnScreen
        THEN LET cs == computedStyle(u)
                 changed == \E f \in StyleTriggers(u) : strictlyUnequal(cs[f], st.cache[u][f])
             IN  IF changed /\ context[u] = Null THEN [st EXCEPT !.ok = FALSE]
                 ELSE checkChildren(
                          [st EXCEPT !.rl = IF changed
                                            THEN scheduleLayout(@, context[u], u, context,
                                                                parent, visible)
                                            ELSE @,
                                     !.cache = storesSeen(@, u, cs)],
                          u, 1, fuel)
        ELSE IF ~clipsDescendants[u] THEN checkChildren(st, u, 1, fuel)
        ELSE st

\* ------------------------------------------------------------------ draw
\* a sort by zIndex that puts a child before the earlier children of equal zIndex
RECURSIVE sortReversingTies(_)
sortReversingTies(seq) ==
    IF Len(seq) <= 1 THEN seq
    ELSE LET rest == sortReversingTies(SubSeq(seq, 1, Len(seq) - 1))
             last == seq[Len(seq)]
             k == Cardinality({i \in 1..Len(rest) : zIndex[rest[i]] < zIndex[last]})
         IN  SubSeq(rest, 1, k) \o <<last>> \o SubSeq(rest, k + 1, Len(rest))

\* [...children].sort((a, b) => a.zIndex - b.zIndex): a stable sort
RECURSIVE sortByZIndex(_)
sortByZIndex(seq) ==
    IF Len(seq) <= 1 THEN seq
    ELSE LET rest == sortByZIndex(SubSeq(seq, 1, Len(seq) - 1))
             last == seq[Len(seq)]
             k == Cardinality({i \in 1..Len(rest) : zIndex[rest[i]] <= zIndex[last]})
         IN  SubSeq(rest, 1, k) \o <<last>> \o SubSeq(rest, k + 1, Len(rest))

\* else if (!UIObject.clipsDescendants): the draw goes on below an off-screen node
drawsBelowOffScreen(u) == ~clipsDescendants[u]

RECURSIVE iterativeDraw(_, _, _), drawChildren(_, _, _, _)
drawChildren(acc, kids, i, fuel) ==
    IF ~acc.ok \/ i > Len(kids) THEN acc
    ELSE drawChildren(iterativeDraw(acc, kids[i], fuel - 1), kids, i + 1, fuel)

iterativeDraw(acc, u, fuel) ==
    IF fuel = 0 THEN [acc EXCEPT !.ok = FALSE, !.overflow = TRUE]
    ELSE IF ~visible[u] THEN acc
    ELSE IF abs[u].visibleOnScreen
    THEN drawChildren([acc EXCEPT !.seq = Append(@, u)], sortByZIndex(children[u]), 1, fuel)
    ELSE IF drawsBelowOffScreen(u) THEN drawChildren(acc, sortByZIndex(children[u]), 1, fuel)
    ELSE acc

\* ------------------------------------------------------------------ update(timestamp)
\* the frame callback, one context of the Map after the other; for each: the style sweep,
\* the drain of relayout, the draw, then flush and relayout.length = 0.  An exception
\* anywhere leaves update() before requestAnimationFrame(update).
Abort ==
    /\ armed' = FALSE
    /\ pc' = "idle"
    /\ cur' = 0
    /\ swept' = <<>>
    /\ laidOut' = <<>>
    /\ drained' = <<>>
    /\ painted' = <<>>

sweep ==
    /\ LET at == IF pc = "idle" THEN 1 ELSE cur
           st0 == [rl |-> relayout, cache |-> styleTriggersLayout, ok |-> TRUE, log |-> <<>>,
                   overflow |-> FALSE]
           st == IF surface[contexts[at]] /\ root[contexts[at]] # Null
                 THEN iterativeCheckForStyleChanges(st0, root[contexts[at]], MaxDepth)
                 ELSE [st0 EXCEPT !.ok = FALSE]
       IN  /\ relayout' = st.rl
           /\ styleTriggersLayout' = st.cache
           /\ IF st.ok
              THEN pc' = "drain" /\ cur' = at /\ swept' = st.log
                   /\ UNCHANGED <<armed, laidOut, drained, painted>>
              ELSE Abort
           /\ threw' = ~st.ok
           /\ overflow' = st.overflow
    /\ UNCHANGED <<treeVars, propVars, styleVars, abs, laidOutIn, ctxSize, contexts, surface, root,
                   lastOp>>

updateSweep ==
    /\ \/ Idle /\ armed /\ Len(contexts) > 0 /\ Step
       \/ pc = "sweep" /\ UNCHANGED budget
    /\ sweep

\* the callback of requestAnimationFrame(update): it runs for as long as it is requested
updateRequested ==
    /\ pc \in {"idle", "sweep"} /\ armed /\ Len(contexts) > 0
    /\ UNCHANGED budget
    /\ sweep

updateDrain ==
    /\ pc = "drain"
    /\ LET res == drain([g |-> abs, ok |-> TRUE, log |-> <<>>, top |-> <<>>, overflow |-> FALSE],
                        relayout[contexts[cur]], 1)
       IN  /\ abs' = res.g
           /\ laidOutIn' = [n \in All |-> IF includes(res.log, n)
                                          THEN laidOutIn[n] \cup {contexts[cur]}
                                          ELSE laidOutIn[n]]
           /\ IF res.ok
              THEN /\ pc' = "draw" /\ laidOut' = res.log /\ drained' = res.top
                   /\ UNCHANGED <<armed, cur, swept, painted>>
              ELSE Abort
           /\ threw' = ~res.ok
           /\ overflow' = res.overflow
    /\ UNCHANGED <<treeVars, propVars, styleVars, styleTriggersLayout, ctxVars, lastOp, budget>>

\* a draw that invalidates: every node it paints is put in the relayout list
updateDrawInvalidating ==
    /\ pc = "draw"
    /\ LET acc == iterativeDraw([seq |-> <<>>, ok |-> TRUE, overflow |-> FALSE],
                             root[contexts[cur]], MaxDepth)
       IN  /\ IF acc.ok
              THEN pc' = "flush" /\ painted' = acc.seq
                   /\ UNCHANGED <<armed, cur, swept, laidOut, drained>>
              ELSE Abort
           /\ relayout' = [relayout EXCEPT ![contexts[cur]] = @ \o acc.seq]
           /\ threw' = ~acc.ok
           /\ overflow' = acc.overflow
    /\ UNCHANGED <<treeVars, propVars, styleVars, layoutVars, ctxSize, contexts, surface, root, lastOp, budget>>

\* iterativeDraw(context.root, canvas)
updateDraw ==
    /\ pc = "draw"
    /\ LET acc == iterativeDraw([seq |-> <<>>, ok |-> TRUE, overflow |-> FALSE],
                             root[contexts[cur]], MaxDepth)
       IN  /\ IF acc.ok
              THEN pc' = "flush" /\ painted' = acc.seq
                   /\ UNCHANGED <<armed, cur, swept, laidOut, drained>>
              ELSE Abort
           /\ threw' = ~acc.ok
           /\ overflow' = acc.overflow
    /\ UNCHANGED <<treeVars, propVars, styleVars, layoutVars, ctxVars, lastOp, budget>>

\* context.surface.flush(); context.relayout.length = 0; then the next context, or
\* requestAnimationFrame(update) after the last
updateFlush ==
    /\ pc = "flush"
    /\ relayout' = [relayout EXCEPT ![contexts[cur]] = <<>>]
    /\ swept' = <<>>
    /\ laidOut' = <<>>
    /\ drained' = <<>>
    /\ painted' = <<>>
    /\ IF cur < Len(contexts)
       THEN pc' = "sweep" /\ cur' = cur + 1
       ELSE pc' = "idle" /\ cur' = 0
    /\ lastOp' = Op("update", RootOf(contexts[cur]), 0, 0)
    /\ UNCHANGED <<treeVars, propVars, styleVars, layoutVars, ctxSize, contexts, surface, root,
                   armed, threw, overflow, budget>>

\* ------------------------------------------------------------------ specification
\* every operation, on every node and context
Next ==
    \/ \E child \in Nodes, newParent \in All \cup {Null} : SetParent(child, newParent)
    \/ \E n \in Nodes, v \in PositionValues : SetPosition(n, v)
    \/ \E n \in Nodes, v \in SizeValues : SetSize(n, v)
    \/ \E n \in Nodes, v \in AnchorValues : SetAnchorPoint(n, v)
    \/ \E n \in Nodes, v \in BOOLEAN : SetVisible(n, v)
    \/ \E n \in Nodes, v \in TextValues : SetText(n, v)
    \/ \E n \in Nodes, v \in BOOLEAN : SetClipsDescendants(n, v)
    \/ \E n \in All, v \in PaddingValues : SetStyle(n, "paddingLeft", v)
    \/ \E k \in Ctxs, v \in ContextSizes : SetContextSize(k, v)
    \/ \E k \in Ctxs, w \in RootWrites : SetRootProperty(k, w)
    \/ \E k \in Ctxs : start(k)
    \/ \E k \in Ctxs : stop(k)
    \/ \E k \in Ctxs : cleanup(k)
    \/ \E n \in Nodes : StylesPush(n, [NewUIStyle EXCEPT !["paddingLeft"] = <<0, 10>>])
    \/ updateSweep
    \/ updateDrain
    \/ updateDraw
    \/ updateFlush

Spec == Init /\ [][Next]_vars

\* x is y, or y is among the ancestors of x
RECURSIVE DescendsFrom(_, _, _)
DescendsFrom(x, y, fuel) ==
    \/ x = y
    \/ fuel > 0 /\ parent[x] # Null /\ DescendsFrom(parent[x], y, fuel - 1)

\* the parents a caller may assign within the contract: null, or a node that belongs to a
\* context and is neither the child nor one of its descendants
Registered(child, candidates) ==
    {Null} \cup {p \in candidates : context[p] # Null /\ ~DescendsFrom(p, child, MaxDepth)}

\* longer runs of parent assignments, within the caller's contract
InitTree == InitWith(MaxTreeSteps)

NextTree ==
    \E child \in Nodes : \E newParent \in Registered(child, All) : SetParent(child, newParent)

SpecTree == InitTree /\ [][NextTree]_vars

\* parent assignments with any node, root or null on the right-hand side
InitAttach == InitWith(MaxAttachSteps)

NextAttach ==
    \E child \in Nodes, newParent \in All \cup {Null} : SetParent(child, newParent)

SpecAttach == InitAttach /\ [][NextAttach]_vars

\* parent assignments with any node of the program on the right-hand side, the node itself
\* and its descendants included, and the frames of one running context
InitCycle == InitWith(MaxCycleSteps)

NextCycle ==
    \/ \E child \in Nodes, newParent \in {RootOf(1)} \cup Nodes \cup {Null} :
          SetParent(child, newParent)
    \/ start(1)
    \/ updateSweep
    \/ updateDrain
    \/ updateDraw
    \/ updateFlush

SpecCycle == InitCycle /\ [][NextCycle]_vars

\* longer runs in one context, within the caller's contract: a tree under the root,
\* property and style writes, resizes, frames
InitFrame == InitWith(MaxFrameSteps)

NextFrame ==
    \/ \E child \in Nodes : \E newParent \in Registered(child, {RootOf(1)} \cup Nodes) :
          SetParent(child, newParent)
    \/ \E n \in Nodes : SetPosition(n, SDim2Default)
    \/ \E n \in Nodes, v \in PaddingValues : SetStyle(n, "paddingLeft", v)
    \/ SetContextSize(1, InitialContextSize)
    \/ start(1)
    \/ updateSweep
    \/ updateDrain
    \/ updateDraw
    \/ updateFlush

SpecFrame == InitFrame /\ [][NextFrame]_vars

\* the assignments that schedule a layout, in one context, within the caller's contract:
\* a tree under the root, position, size, anchorPoint, visible and text writes, resizes,
\* frames
InitAssign == InitWith(MaxAssignSteps)

NextAssign ==
    \/ \E child \in Nodes : \E newParent \in Registered(child, {RootOf(1)} \cup Nodes) :
          SetParent(child, newParent)
    \/ \E n \in Nodes, v \in PositionValues : SetPosition(n, v)
    \/ \E n \in Nodes, v \in SizeValues : SetSize(n, v)
    \/ \E n \in Nodes : SetAnchorPoint(n, SDim2Default)
    \/ \E n \in Nodes, v \in BOOLEAN : SetVisible(n, v)
    \/ \E n \in Nodes, v \in TextValues : SetText(n, v)
    \/ \E v \in ContextSizes : SetContextSize(1, v)
    \/ start(1)
    \/ updateSweep
    \/ updateDrain
    \/ updateDraw
    \/ updateFlush

SpecAssign == InitAssign /\ [][NextAssign]_vars

\* off-screen clipping: every node was given position offset (-50, -50) and size offset
\* (10, 10) and some clipsDescendants = true while detached; then a tree is built in one
\* context and frames run
OffScreenPosition == <<0, -50, 0, -50>>
SmallSize == <<0, 10, 0, 10>>

\* the state after construction and after position, size, zIndex and clipsDescendants were
\* assigned to the still detached nodes (no assignment to a detached node schedules anything)
InitConfigured(pos, siz, z, clips, b) ==
    /\ parent = [n \in All |-> Null]
    /\ context = [n \in All |-> IF IsRoot(n) THEN n - NumNodes ELSE Null]
    /\ children = [n \in All |-> <<>>]
    /\ visible = [n \in All |-> TRUE]
    /\ position = [n \in All |-> IF IsRoot(n) THEN SDim2Default ELSE pos[n]]
    /\ size = [n \in All |-> IF IsRoot(n) THEN SDim2Default ELSE siz[n]]
    /\ anchorPoint = [n \in All |-> SDim2Default]
    /\ text = [n \in All |-> "TextLabel"]
    /\ zIndex = [n \in All |-> IF IsRoot(n) THEN 1 ELSE z[n]]
    /\ clipsDescendants = [n \in All |-> IF IsRoot(n) THEN FALSE ELSE clips[n]]
    /\ style = [n \in All |-> NewUIStyle]
    /\ styles = [n \in All |-> <<>>]
    /\ styleTriggersLayout = [n \in All |-> [f \in StyleTriggers(n) |-> NullValue]]
    /\ abs = [n \in All |-> NewAbs]
    /\ laidOutIn = [n \in All |-> {}]
    /\ ctxSize = [k \in Ctxs |-> InitialContextSize]
    /\ relayout = [k \in Ctxs |-> <<>>]
    /\ contexts = <<>>
    /\ surface = [k \in Ctxs |-> TRUE]
    /\ root = [k \in Ctxs |-> RootOf(k)]
    /\ armed = TRUE
    /\ pc = "idle"
    /\ cur = 0
    /\ swept = <<>>
    /\ laidOut = <<>>
    /\ drained = <<>>
    /\ painted = <<>>
    /\ overflow = FALSE
    /\ threw = FALSE
    /\ lastOp = Op("new", Null, 0, 0)
    /\ budget = b

InitClip ==
    \E clips \in [Nodes -> BOOLEAN] :
        InitConfigured([n \in Nodes |-> OffScreenPosition], [n \in Nodes |-> SmallSize],
                       [n \in Nodes |-> 1], clips, MaxClipSteps)

NextClip ==
    \/ \E child \in Nodes : \E newParent \in Registered(child, {RootOf(1)} \cup Nodes) :
          SetParent(child, newParent)
    \/ start(1)
    \/ updateSweep
    \/ updateDrain
    \/ updateDraw
    \/ updateFlush

SpecClip == InitClip /\ [][NextClip]_vars

\* paint order: every node was given size offset (10, 10) and a zIndex while detached; then
\* a tree is built in one context and frames run
ZIndexPatterns == {<<3, 1, 2>>, <<1, 2, 1>>}

InitPaint ==
    \E pattern \in ZIndexPatterns :
        InitConfigured([n \in Nodes |-> SDim2Default], [n \in Nodes |-> SmallSize],
                       [n \in Nodes |-> pattern[((n - 1) % 3) + 1]],
                       [n \in Nodes |-> FALSE], MaxPaintSteps)

NextPaint ==
    \/ \E child \in Nodes : \E newParent \in Registered(child, {RootOf(1)} \cup Nodes) :
          SetParent(child, newParent)
    \/ start(1)
    \/ updateSweep
    \/ updateDrain
    \/ updateDraw
    \/ updateFlush

SpecPaint == InitPaint /\ [][NextPaint]_vars

\* culling: the nodes were given size offset (10, 10) and all the same position while
\* detached: with the right edge at 0, or the left edge at 20, or at (50, 50); then trees
\* are built in two contexts, the second is given the size 20 x 20 and started, and frames run
CullPositions == {<<0, -10, 0, 0>>, <<0, 20, 0, 0>>, <<0, 50, 0, 50>>}
SmallContextSize == <<20, 20>>

InitCull ==
    \E pos \in CullPositions :
        InitConfigured([n \in Nodes |-> pos], [n \in Nodes |-> SmallSize], [n \in Nodes |-> 1],
                       [n \in Nodes |-> FALSE], MaxCullSteps)

NextCull ==
    \/ \E child \in Nodes : \E newParent \in Registered(child, All) :
          SetParent(child, newParent)
    \/ SetContextSize(2, SmallContextSize)
    \/ start(2)
    \/ updateSweep
    \/ updateDrain
    \/ updateDraw
    \/ updateFlush

SpecCull == InitCull /\ [][NextCull]_vars

\* padding: node 1 was given size offset (100, 100) and the others size scale (1, 1) while
\* detached; then a tree is built in one context, the context is sized 800 x 600, node 1
\* is given a style with a padding of offset 10 on its four sides, and frames run
BoxSize == <<0, 100, 0, 100>>
FullSize == <<1, 0, 1, 0>>
PaddedStyle ==
    [f \in StyleFields |->
        IF f \in {"paddingLeft", "paddingTop", "paddingRight", "paddingBottom"}
        THEN <<0, 10>> ELSE NullValue]

InitPadding ==
    InitConfigured([n \in Nodes |-> SDim2Default],
                   [n \in Nodes |-> IF n = 1 THEN BoxSize ELSE FullSize],
                   [n \in Nodes |-> 1], [n \in Nodes |-> FALSE], MaxPaddingSteps)

NextPadding ==
    \/ \E child \in Nodes : \E newParent \in Registered(child, {RootOf(1), 1}) :
          SetParent(child, newParent)
    \/ \E s \in {PaddedStyle, NewUIStyle} : SetStyleObject(1, s)
    \/ SetContextSize(1, InitialContextSize)
    \/ start(1)
    \/ updateSweep
    \/ updateDrain
    \/ updateDraw
    \/ updateFlush

SpecPadding == InitPadding /\ [][NextPadding]_vars

\* assignments to the root's fields, around a tree below the root, resizes and frames
InitRoot == InitWith(MaxRootSteps)

NextRoot ==
    \/ \E w \in RootWrites : SetRootProperty(1, w)
    \/ \E child \in Nodes : \E newParent \in Registered(child, {RootOf(1)}) :
          SetParent(child, newParent)
    \/ \E n \in Nodes : SetPosition(n, SDim2Default)
    \/ SetContextSize(1, InitialContextSize)
    \/ start(1)
    \/ updateSweep
    \/ updateDrain
    \/ updateDraw
    \/ updateFlush

SpecRoot == InitRoot /\ [][NextRoot]_vars

\* starts and stops of two contexts, around attachments, resizes and frames
InitRegistry == InitWith(MaxRegistrySteps)

NextRegistry ==
    \/ \E k \in Ctxs : start(k)
    \/ \E k \in Ctxs : stop(k)
    \/ \E newParent \in Registered(1, Roots) : SetParent(1, newParent)
    \/ SetContextSize(1, InitialContextSize)
    \/ updateSweep
    \/ updateDrain
    \/ updateDraw
    \/ updateFlush

SpecRegistry == InitRegistry /\ [][NextRegistry]_vars

\* the life of two contexts: start, stop and cleanup, around assignments to a node and frames
InitCleanup == InitWith(MaxCleanupSteps)

NextCleanup ==
    \/ \E k \in Ctxs : start(k)
    \/ \E k \in Ctxs : stop(k)
    \/ \E k \in Ctxs : cleanup(k)
    \/ \E newParent \in Registered(1, {root[k] : k \in Ctxs} \ {Null}) :
          SetParent(1, newParent)
    \/ SetPosition(1, SDim2Default)
    \/ SetContextSize(1, InitialContextSize)
    \/ updateSweep
    \/ updateDrain
    \/ updateDraw
    \/ updateFlush

SpecCleanup == InitCleanup /\ [][NextCleanup]_vars

\* the styles the application builds: a left padding and a color, each null or one of two
\* values
StylePool ==
    {[f \in StyleFields |->
         CASE f = "paddingLeft" -> pl
           [] f = "color" -> c
           [] OTHER -> NullValue] :
       pl \in {NullValue, <<0, 10>>, <<0, 20>>}, c \in {NullValue, <<7>>, <<9>>}}

StyleLists == UNION {[1..len -> StylePool] : len \in 0..MaxStyles}

\* node 1 with any list of styles and any inline style of the pool, then edits of both
InitMerge ==
    /\ parent = [n \in All |-> Null]
    /\ context = [n \in All |-> IF IsRoot(n) THEN n - NumNodes ELSE Null]
    /\ children = [n \in All |-> <<>>]
    /\ visible = [n \in All |-> TRUE]
    /\ position = [n \in All |-> SDim2Default]
    /\ size = [n \in All |-> SDim2Default]
    /\ anchorPoint = [n \in All |-> SDim2Default]
    /\ text = [n \in All |-> "TextLabel"]
    /\ zIndex = [n \in All |-> 1]
    /\ clipsDescendants = [n \in All |-> FALSE]
    /\ \E s \in StylePool : style = [n \in All |-> IF n = 1 THEN s ELSE NewUIStyle]
    /\ \E l \in StyleLists : styles = [n \in All |-> IF n = 1 THEN l ELSE <<>>]
    /\ styleTriggersLayout = [n \in All |-> [f \in StyleTriggers(n) |-> NullValue]]
    /\ abs = [n \in All |-> NewAbs]
    /\ laidOutIn = [n \in All |-> {}]
    /\ ctxSize = [k \in Ctxs |-> InitialContextSize]
    /\ relayout = [k \in Ctxs |-> <<>>]
    /\ contexts = <<>>
    /\ surface = [k \in Ctxs |-> TRUE]
    /\ root = [k \in Ctxs |-> RootOf(k)]
    /\ armed = TRUE
    /\ pc = "idle"
    /\ cur = 0
    /\ swept = <<>>
    /\ laidOut = <<>>
    /\ drained = <<>>
    /\ painted = <<>>
    /\ overflow = FALSE
    /\ threw = FALSE
    /\ lastOp = Op("new", Null, 0, 0)
    /\ budget = MaxMergeSteps

NextMerge ==
    \/ \E f \in {"paddingLeft", "paddingTop"}, v \in PaddingValues : SetStyle(1, f, v)
    \/ \E s \in StylePool : SetStyleObject(1, s)
    \/ \E s \in StylePool : StylesPush(1, s)

SpecMerge == InitMerge /\ [][NextMerge]_vars

MovedPosition == <<0, 5, 0, 5>>

\* one sized node that is attached, detached, moved and attached again, between frames
InitReattach ==
    InitConfigured([n \in Nodes |-> SDim2Default], [n \in Nodes |-> SmallSize],
                   [n \in Nodes |-> 1], [n \in Nodes |-> FALSE], MaxReattachSteps)

NextReattach ==
    \/ \E newParent \in Registered(1, {RootOf(1)}) : SetParent(1, newParent)
    \/ SetPosition(1, MovedPosition)
    \/ SetContextSize(1, InitialContextSize)
    \/ start(1)
    \/ updateSweep
    \/ updateDrain
    \/ updateDraw
    \/ updateFlush

SpecReattach == InitReattach /\ [][NextReattach]_vars

CornerAnchor == <<1, 2, 1, 2>>

\* a box with a full-size child and a small child, all at offset (5, 5): the box gets a
\* padding, a child an anchor point, and a child is hidden, before the first frame
InitLayout ==
    InitConfigured([n \in Nodes |-> MovedPosition],
                   [n \in Nodes |-> IF n = 1 THEN BoxSize ELSE IF n = 2 THEN FullSize
                                                                ELSE SmallSize],
                   [n \in Nodes |-> 1], [n \in Nodes |-> FALSE], MaxLayoutSteps)

NextLayout ==
    \/ \E newParent \in Registered(1, {RootOf(1)}) : SetParent(1, newParent)
    \/ \E child \in {2, 3} : \E newParent \in Registered(child, {1}) :
          SetParent(child, newParent)
    \/ SetStyleObject(1, PaddedStyle)
    \/ SetVisible(3, FALSE)
    \/ SetAnchorPoint(2, CornerAnchor)
    \/ start(1)
    \/ updateSweep
    \/ updateDrain
    \/ updateDraw
    \/ updateFlush

SpecLayout == InitLayout /\ [][NextLayout]_vars

BackPosition == <<0, 60, 0, 60>>

\* node 1 lies off screen and clips its descendants or not; the other nodes, placed below
\* it, are back on screen; nodes are hidden before the first frame
InitDraw ==
    \E clips \in BOOLEAN :
        InitConfigured([n \in Nodes |-> IF n = 1 THEN OffScreenPosition ELSE BackPosition],
                       [n \in Nodes |-> SmallSize], [n \in Nodes |-> 1],
                       [n \in Nodes |-> n = 1 /\ clips], MaxDrawSteps)

NextDraw ==
    \/ \E child \in Nodes : \E newParent \in Registered(child, {RootOf(1)} \cup Nodes) :
          SetParent(child, newParent)
    \/ \E n \in Nodes : SetVisible(n, FALSE)
    \/ start(1)
    \/ updateSweep
    \/ updateDrain
    \/ updateDraw
    \/ updateFlush

SpecDraw == InitDraw /\ [][NextDraw]_vars

\* sized nodes that are attached to, detached from and moved between two contexts, both
\* started at some point, between frames
InitMove ==
    InitConfigured([n \in Nodes |-> SDim2Default], [n \in Nodes |-> SmallSize],
                   [n \in Nodes |-> 1], [n \in Nodes |-> FALSE], MaxMoveSteps)

NextMove ==
    \/ \E child \in {1, 2} : \E newParent \in Registered(child, Roots \cup {1}) :
          SetParent(child, newParent)
    \/ \E k \in Ctxs : start(k)
    \/ updateSweep
    \/ updateDrain
    \/ updateDraw
    \/ updateFlush

SpecMove == InitMove /\ [][NextMove]_vars

\* a bounded number of assignments, and frames for as long as update() requests the next
InitIdle ==
    InitConfigured([n \in Nodes |-> SDim2Default], [n \in Nodes |-> BoxSize],
                   [n \in Nodes |-> 1], [n \in Nodes |-> FALSE], MaxIdleSteps)

FrameIdle == updateRequested \/ updateDrain \/ updateDraw \/ updateFlush

\* a frame is requested or under way
FrameReady ==
    \/ pc \in {"idle", "sweep"} /\ armed /\ Len(contexts) > 0
    \/ pc \in {"drain", "draw", "flush"}

\* the steps of FrameIdle are the steps that change pc or armed: the next phase of the
\* frame, or the exception that leaves update()
FrameAdvances ==
    /\ FrameReady
    /\ pc' \in {"idle", "sweep", "drain", "draw", "flush"}
    /\ armed' \in BOOLEAN

NextIdle ==
    \/ \E child \in {1} \cup TextLabels : \E newParent \in Registered(child, {RootOf(1), 1}) :
          SetParent(child, newParent)
    \/ \E v \in PaddingValues : SetStyle(1, "paddingLeft", v)
    \/ \E n \in TextLabels : SetStyle(n, "textSize", NaNValue)
    \/ SetPosition(1, OffScreenPosition)
    \/ SetContextSize(1, InitialContextSize)
    \/ start(1)
    \/ FrameIdle

\* the host calls the callback of every requestAnimationFrame, and update() runs on
SpecIdle == InitIdle /\ [][NextIdle]_vars /\ WF_<<pc, armed>>(FrameAdvances)

\* ------------------------------------------------------------------ Vector2
\* JavaScript values that arithmetic meets: a number, NaN, Infinity, undefined
JsNum(i) == [t |-> "number", v |-> i]
JsNaN == [t |-> "NaN", v |-> 0]
JsInfinity == [t |-> "Infinity", v |-> 0]
JsUndefined == [t |-> "undefined", v |-> 0]

\* operands: x and y are what operand.x and operand.y evaluate to, v is Number(operand)
Vector2Of(x, y) == [kind |-> "Vector2", x |-> JsNum(x), y |-> JsNum(y), v |-> JsNaN]
ObjectOf(x, y) == [kind |-> "Object", x |-> JsNum(x), y |-> JsNum(y), v |-> JsNaN]
NumberOf(i) == [kind |-> "number", x |-> JsUndefined, y |-> JsUndefined, v |-> JsNum(i)]
NaNOperand == [kind |-> "number", x |-> JsUndefined, y |-> JsUndefined, v |-> JsNaN]
StringOperand == [kind |-> "string", x |-> JsUndefined, y |-> JsUndefined, v |-> JsNaN]
NullOperand == [kind |-> "null", x |-> JsUndefined, y |-> JsUndefined, v |-> JsNum(0)]

\* the values of the arithmetic's operands; the components divide without remainder
LeftOperands == {Vector2Of(4, 6), NumberOf(4), StringOperand, NullOperand}
RightOperands ==
    {Vector2Of(1, 2), Vector2Of(2, 2), NumberOf(2), NumberOf(1), NaNOperand, StringOperand,
     NullOperand, ObjectOf(1, 2)}

\* isNaN(value): Number(value) is NaN
isNaN(operand) == operand.v.t = "NaN"

\* !value instanceof Vector2 is (!value) instanceof Vector2: a boolean is no instance
notInstanceofVector2(operand) == FALSE

\* p + q, p - q, p * q and p / q on numbers, with undefined converted to NaN
Arith(sign, p, q) ==
    IF p.t # "number" \/ q.t # "number" THEN JsNaN
    ELSE CASE sign = "+" -> JsNum(p.v + q.v)
           [] sign = "-" -> JsNum(p.v - q.v)
           [] sign = "*" -> JsNum(p.v * q.v)
           [] sign = "/" -> IF q.v # 0 THEN JsNum(p.v \div q.v)
                            ELSE IF p.v = 0 THEN JsNaN ELSE JsInfinity

Thrown == [threw |-> TRUE, x |-> JsUndefined, y |-> JsUndefined]

\* new Vector2(x, y)
NewVector2(x, y) ==
    IF x.t \in {"NaN", "undefined"} \/ y.t \in {"NaN", "undefined"} THEN Thrown
    ELSE [threw |-> FALSE, x |-> x, y |-> y]

\* Vector2.add(a, b) and Vector2.subtract(a, b); reading .x of null is a TypeError
addOrSubtract(sign, a, b) ==
    IF notInstanceofVector2(a) \/ notInstanceofVector2(b) THEN Thrown
    ELSE IF a.kind = "null" \/ b.kind = "null" THEN Thrown
    ELSE NewVector2(Arith(sign, a.x, b.x), Arith(sign, a.y, b.y))

\* Vector2.multiply(a, b) and Vector2.divide(a, b)
multiplyOrDivide(sign, a, b) ==
    IF notInstanceofVector2(a) THEN Thrown
    ELSE IF notInstanceofVector2(b) \/ isNaN(b) THEN Thrown
    ELSE IF a.kind = "null" THEN Thrown
    ELSE IF b.kind = "Vector2"
         THEN NewVector2(Arith(sign, a.x, b.x), Arith(sign, a.y, b.y))
         ELSE NewVector2(Arith(sign, a.x, b.v), Arith(sign, a.y, b.v))

\* a call of one of the four static functions: old is the pair of operands, new the result
Vector2Call(name, a, b) ==
    /\ Idle /\ Step
    /\ LET result == CASE name = "add" -> addOrSubtract("+", a, b)
                       [] name = "subtract" -> addOrSubtract("-", a, b)
                       [] name = "multiply" -> multiplyOrDivide("*", a, b)
                       [] name = "divide" -> multiplyOrDivide("/", a, b)
       IN  /\ lastOp' = Op(name, Null, <<a, b>>, result)
           /\ threw' = result.threw
    /\ UNCHANGED <<treeVars, propVars, styleVars, layoutVars, ctxVars, frameVars>>

InitVector2 == InitWith(MaxVector2Steps)

NextVector2 ==
    \E name \in {"add", "subtract", "multiply", "divide"}, a \in LeftOperands,
       b \in RightOperands : Vector2Call(name, a, b)

SpecVector2 == InitVector2 /\ [][NextVector2]_vars

\* ------------------------------------------------------------------ claims
Attached(n) == parent[n] # Null /\ context[n] # Null

\* C1: every node in a relayout list has a non-null parent and visible = TRUE (stated for
\* the entries other than a context's root)
C1_RelayoutEntriesAttachedVisible ==
    \A k \in Ctxs : \A i \in 1..Len(relayout[k]) :
        relayout[k][i] \in Nodes =>
            parent[relayout[k][i]] # Null /\ visible[relayout[k][i]]

\* C2: no relayout list holds a node more than once
C2_RelayoutNoDuplicates ==
    \A k \in Ctxs : \A n \in All : Count(relayout[k], n) <= 1

SchedulingSetters == {"SetPosition", "SetSize", "SetAnchorPoint", "SetVisible", "SetText"}

\* whether the node of the last assignment was visible before it
WasVisible == IF lastOp.op = "SetVisible" THEN lastOp.old = 1 ELSE visible[lastOp.node]

\* C3 as claimed: after any scheduling assignment (position, size, anchorPoint, visible,
\* text) to an attached node that was visible, the node has exactly one entry in its
\* context's relayout list
C3_ExactlyOneEntry ==
    (lastOp.op \in SchedulingSetters /\ Attached(lastOp.node) /\ WasVisible)
        => Count(relayout[context[lastOp.node]], lastOp.node) = 1

\* C3 as amended: after any scheduling assignment that leaves an attached node visible,
\* however many came before it since the last frame, the node has exactly one entry in its
\* context's relayout list
C3_ExactlyOneEntryWhileVisible ==
    (lastOp.op \in SchedulingSetters /\ Attached(lastOp.node) /\ WasVisible
        /\ visible[lastOp.node])
        => Count(relayout[context[lastOp.node]], lastOp.node) = 1

\* a second scheduling assignment to an attached visible node (its position was assigned
\* before, now its size), with one entry in the list
C3_Witness ==
    /\ lastOp.op = "SetSize"
    /\ position[lastOp.node] # SDim2Default
    /\ Attached(lastOp.node) /\ visible[lastOp.node]
    /\ Count(relayout[context[lastOp.node]], lastOp.node) = 1

\* C4 as claimed: right after position, size, anchorPoint or visible of an attached node is
\* assigned, the node is in its context's relayout list
C4_AssignmentSchedules ==
    (lastOp.op \in {"SetPosition", "SetSize", "SetAnchorPoint", "SetVisible"}
        /\ Attached(lastOp.node))
        => includes(relayout[context[lastOp.node]], lastOp.node)

\* C4 as amended: ... of an attached node that is visible after the assignment ...
C4_AssignmentSchedulesVisible ==
    (lastOp.op \in {"SetPosition", "SetSize", "SetAnchorPoint", "SetVisible"}
        /\ Attached(lastOp.node) /\ visible[lastOp.node])
        => includes(relayout[context[lastOp.node]], lastOp.node)

\* a hidden attached node is made visible again and is scheduled by that assignment
C4_Witness ==
    /\ lastOp.op = "SetVisible" /\ lastOp.old = 0 /\ lastOp.new = 1
    /\ Attached(lastOp.node)
    /\ includes(relayout[context[lastOp.node]], lastOp.node)

\* the last operation took a child away from the parent lastOp.old
Reparented == lastOp.op = "SetParent" /\ lastOp.old # Null /\ lastOp.new # lastOp.old

\* C7 as claimed: after child.parent = newParent, the previous parent P (non-null, other
\* than newParent) is in its context's relayout list
C7_OldParentScheduled ==
    Reparented => /\ context[lastOp.old] # Null
                  /\ includes(relayout[context[lastOp.old]], lastOp.old)

\* C7 as amended: ... P is in its context's relayout list if P belongs to a context, is
\* visible and has a parent itself (is not a context's root)
C7_OldParentScheduledIfSchedulable ==
    (Reparented /\ context[lastOp.old] # Null /\ visible[lastOp.old]
        /\ parent[lastOp.old] # Null)
        => includes(relayout[context[lastOp.old]], lastOp.old)

\* a child was taken from a visible parent that is attached below a root, and that parent
\* is now scheduled
C7_Witness ==
    /\ Reparented /\ ~threw
    /\ lastOp.old \in Nodes /\ Attached(lastOp.old) /\ visible[lastOp.old]
    /\ includes(relayout[context[lastOp.old]], lastOp.old)

\* C6: after child.parent = newParent (non-null, not the current parent) the child has that
\* parent and its context, is the last of its children, and is no child of the old parent
C6_ReparentPostcondition ==
    (lastOp.op = "SetParent" /\ lastOp.new # Null /\ lastOp.new # lastOp.old)
        => /\ parent[lastOp.node] = lastOp.new
           /\ context[lastOp.node] = context[lastOp.new]
           /\ Len(children[lastOp.new]) > 0
           /\ children[lastOp.new][Len(children[lastOp.new])] = lastOp.node
           /\ lastOp.old # Null => ~includes(children[lastOp.old], lastOp.node)

\* C8: a node other than a root has its parent's context, and no context exactly when it
\* has no parent
C8_ContextIsParentsContext ==
    \A n \in Nodes :
        /\ parent[n] # Null => context[n] = context[parent[n]]
        /\ context[n] = Null <=> parent[n] = Null

\* C9: a node occurs at most once across all children lists, and in those of X exactly
\* when its parent is X
C9_SingleParent ==
    \A n \in Nodes :
        /\ Cardinality({<<x, i>> \in All \X (1..(MaxTreeSteps + MaxFrameSteps)) :
                           i <= Len(children[x]) /\ children[x][i] = n}) <= 1
        /\ \A x \in All : includes(children[x], n) <=> parent[n] = x

RECURSIVE Ancestors(_, _)
Ancestors(n, fuel) ==
    IF parent[n] = Null \/ fuel = 0 THEN {}
    ELSE {parent[n]} \cup Ancestors(parent[n], fuel - 1)

\* n is in the tree of context k (each link of its parent chain is also a children entry),
\* n and its ancestors are visible, and no ancestor is off screen with clipsDescendants
VisibleInTree(n, k) ==
    LET anc == Ancestors(n, MaxDepth)
    IN  /\ RootOf(k) \in anc
        /\ \A m \in (anc \cup {n}) \ Roots : includes(children[parent[m]], m)
        /\ \A m \in anc \cup {n} : visible[m]
        /\ \A m \in anc : abs[m].visibleOnScreen \/ ~clipsDescendants[m]

\* C5: when a padding of a node (not a root) that is visible in the tree was changed since
\* the last frame, the sweep of the next frame puts the node in the relayout list, and the
\* node has been laid out when the draw of that frame starts
C5_StyleChangeRelaysOut ==
    (/\ pc \in {"drain", "draw"}
     /\ lastOp.op = "SetStyle" /\ lastOp.old # lastOp.new
     /\ lastOp.node \in Nodes
     /\ VisibleInTree(lastOp.node, contexts[cur]))
        => /\ includes(relayout[contexts[cur]], lastOp.node)
           /\ pc = "draw" => includes(laidOut, lastOp.node)

\* C10: after the size of a running context is assigned, the frame callback is still
\* scheduled, and when the next frame draws that context, the root and every node visible
\* in its tree have been laid out
C10_ResizeRelaysOutTree ==
    (lastOp.op = "SetContextSize" /\ lastOp.old = 1)
        => /\ armed
           /\ pc = "draw" =>
                 /\ includes(laidOut, lastOp.node)
                 /\ \A n \in Nodes :
                       VisibleInTree(n, contexts[cur]) => includes(laidOut, n)

\* C11: the computed layout fields (absolute position, size, anchor point and paddings,
\* visibleOnScreen) of no node change in any step but the relayout drain of a frame: no
\* assignment of position, size, anchorPoint, visible, text, parent or a context's size
\* changes them
C11_MutationsOnlyEnqueue == [][abs' # abs => pc = "drain"]_vars

\* the position of an attached node that a frame had laid out was assigned: the node is
\* enqueued, and its absolute position is still the one of the last frame
C11_Witness ==
    /\ lastOp.op = "SetPosition" /\ pc = "idle"
    /\ Attached(lastOp.node)
    /\ includes(relayout[context[lastOp.node]], lastOp.node)
    /\ ~abs[lastOp.node].visibleOnScreen
    /\ layoutOwn(abs, lastOp.node, TRUE)[lastOp.node].absolutePosition
          # abs[lastOp.node].absolutePosition

\* C12: the draw of a frame leaves every relayout list, the computed layout fields of
\* every node (visibleOnScreen among them) and every cached style value as they are
C12_PaintReadsOnly ==
    [][pc = "draw" => UNCHANGED <<relayout, abs, styleTriggersLayout>>]_vars

\* a draw has painted the root and a node below it, and the relayout list of the frame
\* still holds its entries
C12_Witness ==
    /\ pc = "flush"
    /\ \E n \in Nodes : includes(painted, n) /\ includes(relayout[contexts[cur]], n)
    /\ includes(painted, RootOf(contexts[cur]))

\* x, a child of a root, has clipsDescendants and a rectangle outside the viewport
ClipsOffScreen(x) ==
    /\ Attached(x) /\ IsRoot(parent[x]) /\ includes(children[parent[x]], x)
    /\ clipsDescendants[x]
    /\ ~onScreen(layoutOwn(abs, x, TRUE)[x], ctxSize[context[x]])

\* C13: in a frame of a running context, a child y of a node x that has clipsDescendants
\* and lies outside the viewport is visited neither by the style sweep nor by the draw
\* (for the draw: y is not painted)
C13_ClippedChildNeverVisited ==
    pc \in {"drain", "draw", "flush"} =>
        \A x, y \in Nodes :
            (ClipsOffScreen(x) /\ context[x] = contexts[cur]
                /\ parent[y] = x /\ includes(children[x], y))
                => ~includes(swept, y) /\ ~includes(painted, y)

\* u occurs before v in seq
Before(seq, u, v) == \E i, j \in 1..Len(seq) : i < j /\ seq[i] = u /\ seq[j] = v

\* C14: of two painted children of one node, the one of smaller zIndex is painted first,
\* and of two of equal zIndex the one that is earlier in the children list; the draw
\* leaves every children list as it is
C14_PaintOrder ==
    /\ [](pc = "flush" =>
            \A u, v \in Nodes :
                (/\ u # v /\ parent[u] # Null /\ parent[u] = parent[v]
                 /\ includes(children[parent[u]], u) /\ includes(children[parent[u]], v)
                 /\ includes(painted, u) /\ includes(painted, v))
                    => (Before(painted, u, v)
                          <=> \/ zIndex[u] < zIndex[v]
                              \/ zIndex[u] = zIndex[v] /\ Before(children[parent[u]], u, v)))
    /\ [][pc = "draw" => children' = children]_vars

\* the children of the root have zIndex 3, 1, 2 in list order and were painted second,
\* third, first
C14_Witness ==
    /\ pc = "flush"
    /\ children[RootOf(1)] = <<1, 2, 3>>
    /\ <<zIndex[1], zIndex[2], zIndex[3]>> = <<3, 1, 2>>
    /\ painted = <<RootOf(1), 2, 3, 1>>

\* two children of equal zIndex were painted in their order in the children list, around
\* one of a higher zIndex that is between them in the list and painted last
C14_TiesWitness ==
    /\ pc = "flush"
    /\ children[RootOf(1)] = <<1, 2, 3>>
    /\ <<zIndex[1], zIndex[2], zIndex[3]>> = <<1, 2, 1>>
    /\ painted = <<RootOf(1), 1, 3, 2>>

\* the context whose root is above n, following the parents (Null if there is none)
TreeContext(n) ==
    IF \E k \in Ctxs : RootOf(k) \in Ancestors(n, MaxDepth)
    THEN CHOOSE k \in Ctxs : RootOf(k) \in Ancestors(n, MaxDepth)
    ELSE Null

\* C15: when the drain of a frame has laid out a node that is in the tree of a context,
\* its visibleOnScreen is true exactly if absolutePosition.x < width, absolutePosition.y <
\* height, absolutePosition.x + absoluteSize.x > 0 and absolutePosition.y +
\* absoluteSize.y > 0, for the width and height of that context's viewport
C15_VisibleOnScreenIsIntersection ==
    pc = "draw" =>
        \A n \in Nodes :
            (includes(laidOut, n) /\ TreeContext(n) # Null)
                => (abs[n].visibleOnScreen <=> onScreen(abs[n], ctxSize[TreeContext(n)]))

\* a, of size offset (100, 100), is a child of a root whose size is 800 x 600; b, of size
\* scale (1, 1), is a child of a; the frame has laid out a (and with it b)
BoxScenario(a, b) ==
    /\ pc = "draw"
    /\ Attached(a) /\ IsRoot(parent[a]) /\ includes(children[parent[a]], a)
    /\ abs[parent[a]].absoluteSize = <<800, 600>>
    /\ parent[b] = a /\ includes(children[a], b) /\ context[b] = context[a]
    /\ size[a] = BoxSize /\ size[b] = FullSize
    /\ position[a] = SDim2Default /\ position[b] = SDim2Default
    /\ anchorPoint[a] = SDim2Default /\ anchorPoint[b] = SDim2Default
    /\ includes(laidOut, a)

Padded(a) ==
    \A f \in {"paddingLeft", "paddingTop", "paddingRight", "paddingBottom"} :
        computedStyle(a)[f] = <<0, 10>>

Unpadded(a) ==
    \A f \in {"paddingLeft", "paddingTop", "paddingRight", "paddingBottom"} :
        computedStyle(a)[f] = <<0, 0>>

\* C16 as claimed: a is at (0, 0) with size (100, 100), and b has size (100, 100) whether
\* a has no padding or a padding of offset 10 on its four sides
C16_PaddingLeavesChildSize ==
    \A a, b \in Nodes :
        (BoxScenario(a, b) /\ (Padded(a) \/ Unpadded(a)))
            => /\ abs[a].absolutePosition = <<0, 0>>
               /\ abs[a].absoluteSize = <<100, 100>>
               /\ abs[b].absoluteSize = <<100, 100>>

\* C16 as amended: a is at (0, 0) with size (100, 100); without padding b is at (0, 0)
\* with size (100, 100); with a padding of offset 10 on the four sides of a, b is at
\* (10, 10) with size (80, 80)
C16_PaddingShrinksChild ==
    \A a, b \in Nodes :
        BoxScenario(a, b)
            => /\ abs[a].absolutePosition = <<0, 0>>
               /\ abs[a].absoluteSize = <<100, 100>>
               /\ Unpadded(a) => /\ abs[b].absoluteSize = <<100, 100>>
                                 /\ abs[b].absolutePosition = <<0, 0>>
               /\ Padded(a) => /\ abs[b].absoluteSize = <<80, 80>>
                               /\ abs[b].absolutePosition = <<10, 10>>

\* the frame after a was given the padding has laid out a and b: b is at (10, 10) with
\* size (80, 80)
C16_Witness ==
    \E a, b \in Nodes :
        /\ BoxScenario(a, b) /\ Padded(a)
        /\ abs[b].absoluteSize = <<80, 80>>
        /\ abs[b].absolutePosition = <<10, 10>>

\* C17: whenever a frame draws a context, the absoluteSize of the context's root is the
\* context's size
C17_RootSizeIsContextSize ==
    pc = "draw" => abs[RootOf(contexts[cur])].absoluteSize = ctxSize[contexts[cur]]

\* C18: the root of every context keeps parent null, its context, visible true, size,
\* position and anchorPoint zero, zIndex 1 and clipsDescendants false, and an assignment
\* to one of these fields (or to name) changes no node's fields, no children list and no
\* relayout list
C18_RootWriteProtected ==
    /\ [](\A k \in Ctxs :
            /\ parent[RootOf(k)] = Null /\ context[RootOf(k)] = k
            /\ visible[RootOf(k)]
            /\ size[RootOf(k)] = SDim2Default /\ position[RootOf(k)] = SDim2Default
            /\ anchorPoint[RootOf(k)] = SDim2Default
            /\ zIndex[RootOf(k)] = 1 /\ ~clipsDescendants[RootOf(k)])
    /\ [][lastOp'.op = "SetRootProperty" /\ pc = "idle" /\ pc' = "idle"
            => UNCHANGED <<treeVars, propVars, styleVars, layoutVars, ctxVars>>]_vars

\* visible = false was assigned to a root that has a child and is in the relayout list
\* with it: the root is still visible
C18_Witness ==
    /\ lastOp.op = "SetRootProperty"
    /\ Len(children[lastOp.node]) > 0
    /\ includes(relayout[context[lastOp.node]], lastOp.node)
    /\ \E n \in Nodes : includes(relayout[context[lastOp.node]], n)
    /\ visible[lastOp.node]

\* a step of the per-frame tick
FrameStep == pc # "idle" \/ pc' # "idle"

\* C20: a step of a tick leaves the relayout list of every context that is not in the
\* registry unchanged, and leaves the computed layout fields of every node in the tree of
\* such a context unchanged
C20_TickDrivesRegisteredOnly ==
    [][FrameStep =>
          \A k \in Ctxs : ~running(k) =>
              /\ relayout'[k] = relayout[k]
              /\ \A n \in All : TreeContext(n) = k => abs'[n] = abs[n]]_vars

\* the relayout lists alone
C20_RelayoutPart ==
    [][FrameStep => \A k \in Ctxs : ~running(k) => relayout'[k] = relayout[k]]_vars

\* the computed layout fields alone
C20_LayoutPart ==
    [][FrameStep =>
          \A k \in Ctxs : ~running(k) =>
              \A n \in All : TreeContext(n) = k => abs'[n] = abs[n]]_vars

\* a step that is a call of stop
StopStep == pc = "idle" /\ pc' = "idle" /\ budget' < budget /\ ~threw' /\ lastOp'.op = "stop"

\* C19: no context is in the registry twice; after start() the context is in it once and
\* running; after stop() it is not running and the value returned is whether it was in the
\* registry; a stop() that follows a stop() of the same context returns false and changes
\* nothing
C19_StartStopIdempotent ==
    /\ [](\A k \in Ctxs : Count(contexts, k) <= 1)
    /\ [](lastOp.op = "start" =>
            running(context[lastOp.node]) /\ Count(contexts, context[lastOp.node]) = 1)
    /\ [](lastOp.op = "stop" =>
            ~running(context[lastOp.node]) /\ lastOp.new = lastOp.old)
    /\ [][StopStep /\ lastOp.op = "stop" /\ lastOp'.node = lastOp.node =>
            /\ lastOp'.new = 0
            /\ UNCHANGED <<treeVars, propVars, styleVars, layoutVars, ctxVars, frameVars>>]_vars

\* start() was called on a running context while the other context is registered too
C19_Witness ==
    /\ lastOp.op = "start" /\ lastOp.old = 1
    /\ Len(contexts) = NumContexts
    /\ Count(contexts, context[lastOp.node]) = 1

\* stop() returned false, the other context still running
C19_RepeatedStopWitness ==
    /\ lastOp.op = "stop" /\ lastOp.new = 0
    /\ Len(contexts) > 0

\* C21: a context that was cleaned up is not running, has no root and has an empty
\* relayout list, whatever is done after the cleanup
C21_CleanedUpIsTerminal ==
    \A k \in Ctxs : ~surface[k] => ~running(k) /\ root[k] = Null /\ relayout[k] = <<>>

\* the parts of C21: the registry, and the relayout list
C21_NeverRunningAgain == \A k \in Ctxs : ~surface[k] => ~running(k)

C21_RelayoutStaysEmpty == \A k \in Ctxs : ~surface[k] => relayout[k] = <<>>

\* the input of computedStyle
StyleSequence(n) == <<UIStyleDefault>> \o styles[n] \o <<style[n]>>

\* the last non-null value of field f in a sequence of styles, null if there is none
LastNonNull(seq, f) ==
    IF \E i \in 1..Len(seq) : seq[i][f] # NullValue
    THEN seq[CHOOSE i \in 1..Len(seq) :
                 /\ seq[i][f] # NullValue
                 /\ \A j \in (i + 1)..Len(seq) : seq[j][f] = NullValue][f]
    ELSE NullValue

\* C22: every field of a node's computedStyle is the last non-null value of the field in
\* [default, styles..., style]; a non-null field of the inline style wins; and merging a
\* sequence equals merging the merge of any prefix of it with the rest
C22_MergeLastNonNullWins ==
    \A n \in All :
        /\ \A f \in StyleFields :
              /\ computedStyle(n)[f] = LastNonNull(StyleSequence(n), f)
              /\ style[n][f] # NullValue => computedStyle(n)[f] = style[n][f]
        /\ \A i \in 1..Len(StyleSequence(n)) :
              merge(StyleSequence(n))
                  = merge(<<merge(SubSeq(StyleSequence(n), 1, i))>>
                             \o SubSeq(StyleSequence(n), i + 1, Len(StyleSequence(n))))

\* node 1 has two styles and an inline style: the left padding comes from the first style
\* (null in the second and in the inline style), the color from the inline style, over a
\* different color in a style of the list
C22_Witness ==
    /\ Len(styles[1]) = 2
    /\ styles[1][1]["paddingLeft"] = <<0, 20>> /\ styles[1][2]["paddingLeft"] = NullValue
    /\ style[1]["paddingLeft"] = NullValue
    /\ computedStyle(1)["paddingLeft"] = <<0, 20>>
    /\ styles[1][2]["color"] = <<7>> /\ style[1]["color"] = <<9>>
    /\ computedStyle(1)["color"] = <<9>>
    /\ lastOp.op = "StylesPush"

Called(names) == lastOp.op \in names

\* C23, the results: multiply and divide of a Vector2 by a Vector2 return the componentwise
\* product and quotient, by a number the scalar ones
C23_ResultsOfMultiplyDivide ==
    Called({"multiply", "divide"}) /\ lastOp.old[1].kind = "Vector2" =>
        LET a == lastOp.old[1]
            b == lastOp.old[2]
            sign == IF lastOp.op = "multiply" THEN "*" ELSE "/"
        IN  /\ b.kind = "Vector2" =>
                  lastOp.new = [threw |-> FALSE, x |-> Arith(sign, a.x, b.x),
                                y |-> Arith(sign, a.y, b.y)]
            /\ (b.kind = "number" /\ ~isNaN(b)) =>
                  lastOp.new = [threw |-> FALSE, x |-> Arith(sign, a.x, b.v),
                                y |-> Arith(sign, a.y, b.v)]

\* C23, the errors: the four functions raise an error when a is not a Vector2, or b is not
\* a Vector2 (add, subtract), or b is neither a Vector2 nor a number (multiply, divide)
C23_ErrorsOnWrongKinds ==
    /\ Called({"add", "subtract"}) =>
          (lastOp.old[1].kind # "Vector2" \/ lastOp.old[2].kind # "Vector2" => lastOp.new.threw)
    /\ Called({"multiply", "divide"}) =>
          (lastOp.old[1].kind # "Vector2"
              \/ lastOp.old[2].kind \notin {"Vector2", "number"} => lastOp.new.threw)

\* C23: the arithmetic accepts exactly its documented operand kinds
C23_Vector2OperandKinds == C23_ResultsOfMultiplyDivide /\ C23_ErrorsOnWrongKinds

\* what the code does with a Vector2 as second operand of multiply and divide
C23_VectorOperandThrows ==
    Called({"multiply", "divide"}) /\ lastOp.old[2].kind = "Vector2" => lastOp.new.threw

\* what the layout formulas yield for n from the current inputs, in the context k that
\* paints it
FreshLayout(n, k) ==
    IF IsRoot(n) THEN [abs[n] EXCEPT !.absoluteSize = ctxSize[k]]
    ELSE LET own == layoutOwn(abs, n, TRUE)[n]
         IN  [own EXCEPT !.visibleOnScreen = onScreen(own, ctxSize[k])]

\* C24: when a frame has painted a context, the absolute fields and visibleOnScreen of
\* every node it painted are what the layout formulas yield from the node's current
\* properties and computed padding, its parent's absolute fields and the context's size
C24_NoStaleLayoutAtPaint ==
    pc = "flush" =>
        \A i \in 1..Len(painted) : abs[painted[i]] = FreshLayout(painted[i], contexts[cur])

\* C24 for the nodes below the root
C24_NoStaleLayoutBelowRoot ==
    pc = "flush" =>
        \A i \in 1..Len(painted) :
            ~IsRoot(painted[i]) => abs[painted[i]] = FreshLayout(painted[i], contexts[cur])

\* C25: no frame aborts: the per-frame callback is pending or running in every state
C25_TickNeverAborts == armed

\* C26: the drain of a frame calls layout(true) once on every entry of the context's
\* relayout list, in the order of the list, and goes on to the painting; after the
\* painting the context's relayout list is emptied
C26_DrainInInsertionOrder ==
    /\ [][pc = "drain" =>
            /\ pc' = "draw"
            /\ drained' = relayout[contexts[cur]]
            /\ \A i \in 1..Len(drained') : includes(laidOut', drained'[i])]_vars
    /\ [][pc = "flush" => relayout'[contexts[cur]] = <<>>]_vars

\* the drain of a frame that goes on to the painting
C26_DrainThatCompletes ==
    [][pc = "drain" /\ pc' = "draw" => drained' = relayout[contexts[cur]]]_vars

\* the fields that layout(true) gives n, from the absolute fields g of its parent
Laid(n, g) ==
    LET p == g[parent[n]]
        cs == computedStyle(n)
        sx == size[n][1] * p.absoluteSize[1] + size[n][2]
                - (p.absolutePaddingLeft + p.absolutePaddingRight)
        sy == size[n][3] * p.absoluteSize[2] + size[n][4]
                - (p.absolutePaddingTop + p.absolutePaddingBottom)
        ax == anchorPoint[n][1] * sx + anchorPoint[n][2]
        ay == anchorPoint[n][3] * sy + anchorPoint[n][4]
    IN  [absoluteSize |-> <<sx, sy>>,
         absolutePaddingLeft |-> cs.paddingLeft[1] * sx + cs.paddingLeft[2],
         absolutePaddingRight |-> cs.paddingRight[1] * sx + cs.paddingRight[2],
         absolutePaddingTop |-> cs.paddingTop[1] * sy + cs.paddingTop[2],
         absolutePaddingBottom |-> cs.paddingBottom[1] * sy + cs.paddingBottom[2],
         absoluteAnchorPoint |-> <<ax, ay>>,
         absolutePosition |->
             <<position[n][1] * p.absoluteSize[1] + position[n][2] - ax
                  + p.absolutePosition[1] + p.absolutePaddingLeft,
               position[n][3] * p.absoluteSize[2] + position[n][4] - ay
                  + p.absolutePosition[2] + p.absolutePaddingTop>>]

SameLayout(a, l) ==
    /\ a.absoluteSize = l.absoluteSize
    /\ a.absolutePaddingLeft = l.absolutePaddingLeft
    /\ a.absolutePaddingRight = l.absolutePaddingRight
    /\ a.absolutePaddingTop = l.absolutePaddingTop
    /\ a.absolutePaddingBottom = l.absolutePaddingBottom
    /\ a.absoluteAnchorPoint = l.absoluteAnchorPoint
    /\ a.absolutePosition = l.absolutePosition

\* the first entry of the list that a drain works on is a non-root node with a parent, and
\* every entry of the list is that node or one of its descendants
DrainOfSubtree(n) ==
    /\ pc = "drain" /\ pc' = "draw"
    /\ Len(relayout[contexts[cur]]) > 0 /\ n = relayout[contexts[cur]][1]
    /\ ~IsRoot(n) /\ parent[n] # Null
    /\ \A i \in 1..Len(relayout[contexts[cur]]) :
          DescendsFrom(relayout[contexts[cur]][i], n, MaxDepth)

\* C27: layout(true) on a non-root node gives it the size, paddings, anchor point and
\* position of the formulas, from its parent's absolute fields; every visible child is laid
\* out, with its position updated from the node's new fields, and no invisible child is
C27_LayoutFormulas ==
    [][\A n \in Nodes : DrainOfSubtree(n) =>
          /\ SameLayout(abs'[n], Laid(n, abs))
          /\ \A i \in 1..Len(children[n]) :
                LET c == children[n][i]
                IN  /\ visible[c] => includes(laidOut', c) /\ SameLayout(abs'[c], Laid(c, abs'))
                    /\ (~visible[c] /\ ~includes(relayout[contexts[cur]], c))
                          => ~includes(laidOut', c) /\ abs'[c] = abs[c]]_vars

\* the box, padded by 10, was laid out at (5, 5) with its children: the full-size child,
\* with the anchor point, has size (80, 80) and is at (5 - 82 + 5 + 10, same), and the small
\* child, hidden, was not laid out
C27_Witness ==
    /\ pc = "draw"
    /\ drained = <<1, 2>> /\ IsRoot(parent[1])
    /\ children[1] = <<2, 3>> /\ visible[2] /\ ~visible[3]
    /\ anchorPoint[2] = CornerAnchor
    /\ abs[1].absolutePaddingLeft = 10 /\ abs[1].absolutePosition = <<5, 5>>
    /\ abs[2].absoluteSize = <<80, 80>>
    /\ abs[2].absolutePosition = <<-62, -62>>
    /\ laidOut = <<1, 2, 2>>

\* n is the root of context k or has it among its ancestors
InTreeOf(n, k) == n = RootOf(k) \/ RootOf(k) \in Ancestors(n, MaxDepth)

\* C28: the paint pass of a context paints a node of its tree exactly if the node is
\* visible with visibleOnScreen true, every ancestor is visible, and no ancestor has
\* visibleOnScreen false together with clipsDescendants
C28_PaintedIffShown ==
    pc = "flush" =>
        \A n \in All :
            InTreeOf(n, contexts[cur]) =>
                (includes(painted, n) <=>
                    /\ visible[n] /\ abs[n].visibleOnScreen
                    /\ \A m \in Ancestors(n, MaxDepth) :
                          visible[m] /\ (abs[m].visibleOnScreen \/ ~clipsDescendants[m]))

\* C28 for the nodes whose chain of parents is also a chain of children entries
C28_PaintedIffShownOnPath ==
    pc = "flush" =>
        \A n \in All :
            (InTreeOf(n, contexts[cur])
                /\ \A m \in (Ancestors(n, MaxDepth) \cup {n}) \ Roots :
                      includes(children[parent[m]], m)) =>
                (includes(painted, n) <=>
                    /\ visible[n] /\ abs[n].visibleOnScreen
                    /\ \A m \in Ancestors(n, MaxDepth) :
                          visible[m] /\ (abs[m].visibleOnScreen \/ ~clipsDescendants[m]))

\* node 1, off screen without clipsDescendants, was not painted and its child was
C28_OffScreenParentWitness ==
    /\ pc = "flush"
    /\ IsRoot(parent[1]) /\ parent[2] = 1
    /\ visible[1] /\ ~abs[1].visibleOnScreen /\ ~clipsDescendants[1]
    /\ ~includes(painted, 1) /\ includes(painted, 2)

\* C29: a node below the root that a context's frame paints has been laid out by a drain of
\* that context before
C29_LaidOutBeforePainted ==
    pc = "flush" =>
        \A i \in 1..Len(painted) :
            ~IsRoot(painted[i]) => contexts[cur] \in laidOutIn[painted[i]]

\* C30: right after a visible node is assigned a new non-null parent that belongs to a
\* context, the node itself is in the relayout list of that parent's context, whether or not
\* the node had a parent before
C30_AttachSchedulesChild ==
    (/\ lastOp.op = "SetParent" /\ lastOp.new # Null /\ lastOp.new # lastOp.old
     /\ context[lastOp.new] # Null /\ visible[lastOp.node]) =>
        includes(relayout[context[lastOp.new]], lastOp.node)

\* C30 for a node that had another parent before and whose assignment completed
C30_MovedChildScheduled ==
    (/\ lastOp.op = "SetParent" /\ lastOp.new # Null /\ lastOp.new # lastOp.old
     /\ lastOp.old # Null /\ ~threw
     /\ context[lastOp.new] # Null /\ visible[lastOp.node]) =>
        includes(relayout[context[lastOp.new]], lastOp.node)

\* a node that had another parent was moved below a parent in a context
C30_MovedChildWitness ==
    /\ lastOp.op = "SetParent" /\ lastOp.new # Null /\ lastOp.new # lastOp.old
    /\ lastOp.old # Null /\ ~threw
    /\ context[lastOp.new] # Null /\ visible[lastOp.node]
    /\ context[lastOp.new] # context[lastOp.old]
    /\ includes(relayout[context[lastOp.new]], lastOp.node)

\* C31: a parent assignment that raises changes nothing: the child is not in the new
\* parent's children afterwards, and the child's parent, the child's context, the old
\* parent's children and every relayout list are as before the assignment
C31_RaisingAssignmentChangesNothing ==
    [][(lastOp'.op = "SetParent" /\ budget' = budget - 1 /\ threw') =>
          /\ lastOp'.new # Null => ~includes(children'[lastOp'.new], lastOp'.node)
          /\ parent'[lastOp'.node] = parent[lastOp'.node]
          /\ context'[lastOp'.node] = context[lastOp'.node]
          /\ lastOp'.old # Null => children'[lastOp'.old] = children[lastOp'.old]
          /\ relayout' = relayout]_vars

\* what a raising parent assignment does keep: the child's parent and the relayout list
\* of every context but the old parent's
C31_RaisingAssignmentKeepsParent ==
    [][(lastOp'.op = "SetParent" /\ budget' = budget - 1 /\ threw') =>
          /\ parent'[lastOp'.node] = parent[lastOp'.node]
          /\ \A k \in Ctxs :
                (lastOp'.old = Null \/ context[lastOp'.old] # k) => relayout'[k] = relayout[k]]_vars

\* the nodes in the children list of n
ChildSet(n) == {children[n][i] : i \in 1..Len(children[n])}

RECURSIVE Below(_, _)
Below(S, fuel) ==
    IF fuel = 0 THEN S ELSE Below(S \cup UNION {ChildSet(m) : m \in S}, fuel - 1)

\* n is reached from itself through children lists
OnCycle(n) == n \in Below(ChildSet(n), MaxDepth)

\* C32: the sweep, the drain and the paint pass of every tick finish after finitely many
\* node visits, whatever parent assignments came before: no pass recurses without end
C32_EveryPassTerminates == ~overflow

\* a pass recurses without end only on children lists that contain a cycle
C32_EndlessOnlyOnCycle ==
    [][(~overflow /\ overflow') => \E n \in Nodes : OnCycle(n)]_vars

\* the three passes of a frame have finished on a tree with a node two levels below the root
C32_FrameFinishedWitness ==
    /\ pc = "flush" /\ ~overflow
    /\ \E n \in Nodes : includes(swept, n) /\ includes(laidOut, n) /\ parent[n] \in Nodes

\* a frame that finds the relayout list empty at its drain and lays out nothing
QuietFrame ==
    /\ pc = "drain" => relayout[contexts[cur]] = <<>>
    /\ pc = "draw" => laidOut = <<>>

\* C33: once the assignments have stopped (they do, after MaxIdleSteps), from some frame on
\* every drain of a running context finds the relayout list empty and no absolute field of
\* any node changes: the drains lay out nothing, and absolute fields change in no other step
\* of a frame
C33_IdleQuiescence ==
    /\ <>[]QuietFrame
    /\ [][abs' # abs => (budget' < budget \/ (pc = "drain" /\ (laidOut' # <<>> \/ threw')))]_vars

\* no node has NaN as the computed value of a style property that the sweep compares
NoNaNStyle == \A n \in All : \A f \in StyleTriggers(n) : computedStyle(n)[f] # NaNValue

\* C33 for the runs in which no compared style property is ever NaN
C33_IdleQuiescenceWithoutNaN == []NoNaNStyle => <>[]QuietFrame

\* the steps that change pc or armed are the steps of the frame, which leave budget alone
C33_FrameStepsAreTheFrame ==
    [][(<<pc, armed>>' # <<pc, armed>>) <=> (FrameReady /\ budget' = budget)]_vars

\* after the last assignment a frame of the running context is at its drain with an empty
\* list, and an earlier drain has laid out node 1 and the text label below it
C33_QuietWitness ==
    /\ budget = 0 /\ pc = "drain" /\ relayout[contexts[cur]] = <<>> /\ NoNaNStyle
    /\ laidOutIn[1] # {} /\ \E n \in TextLabels : parent[n] = 1 /\ laidOutIn[n] # {}

====
